---------------------------- MODULE Spec2Model ----------------------------
(***************************************************************************)
(* A model of sattle's proximity evaluator (docker/sattle.cpp): the Python *)
(* binding objects Inputs and Outputs with their array setters, and        *)
(* calc_sat, which evaluates a satellite's apparent direction at two       *)
(* epochs against a target direction.                                      *)
(*                                                                         *)
(* Numbers.  A C double is a record: a number on an integer grid, NaN, or  *)
(* an infinity.  An infinity also stands for every magnitude so large that *)
(* adding 2*pi to it no longer changes it.  Angles in radians are counted  *)
(* in units of pi/PI (half degrees); angles in degrees are counted in      *)
(* degrees; Julian dates are counted in tenths of a day.                   *)
(***************************************************************************)
EXTENDS Integers, Sequences, FiniteSets, TLC

(***************************************************************************)
(* Bounds of the model.                                                    *)
(***************************************************************************)
\* calc_sat calls in one session
MaxCalls == 2
\* longest array handed to an array setter
MaxArrLen == 3
\* the turns of the wrap loop are counted modulo MaxWrap + 1
MaxWrap == 8

(***************************************************************************)
(* double arithmetic                                                       *)
(***************************************************************************)
Num(v) == [k |-> "num", v |-> v]
NaN == [k |-> "nan", v |-> 0]
PosInf == [k |-> "inf", v |-> 1]
NegInf == [k |-> "inf", v |-> -1]

IsNum(a) == a.k = "num"
IsNaN(a) == a.k = "nan"
IsInf(a) == a.k = "inf"

FNeg(a) == [a EXCEPT !.v = 0 - a.v]

FAdd(a, b) ==
    IF IsNaN(a) \/ IsNaN(b) THEN NaN
    ELSE IF IsInf(a) THEN (IF IsInf(b) /\ b.v # a.v THEN NaN ELSE a)
    ELSE IF IsInf(b) THEN b
    ELSE Num(a.v + b.v)

FSub(a, b) == FAdd(a, FNeg(b))

\* a < b; false as soon as one side is NaN
FLt(a, b) ==
    /\ ~IsNaN(a)
    /\ ~IsNaN(b)
    /\ IF IsInf(a) THEN a.v < 0 /\ b # a
       ELSE IF IsInf(b) THEN b.v > 0
       ELSE a.v < b.v

FGt(a, b) == FLt(b, a)

FLe(a, b) == ~IsNaN(a) /\ ~IsNaN(b) /\ (a = b \/ FLt(a, b))

FGe(a, b) == FLe(b, a)

\* a * n / d for whole numbers n, d > 0
FScale(a, n, d) == IF IsNum(a) THEN Num((a.v * n) \div d) ELSE a

RECURSIVE SqrtIter(_, _, _)
SqrtIter(x, lo, hi) ==
    IF lo >= hi THEN lo
    ELSE LET mid == (lo + hi + 1) \div 2
         IN  IF mid * mid <= x THEN SqrtIter(x, mid, hi)
             ELSE SqrtIter(x, lo, mid - 1)

\* the whole part of the square root
ISqrt(x) == SqrtIter(x, 0, 46340)

\* sqrt(a * a + b * b)
FHypot(a, b) ==
    IF IsNaN(a) \/ IsNaN(b) THEN NaN
    ELSE IF IsInf(a) \/ IsInf(b) THEN PosInf
    ELSE Num(ISqrt(a.v * a.v + b.v * b.v))

\* C's fmod(a, m) for a number m > 0: the remainder has the sign of a
Fmod(a, m) ==
    IF IsNaN(a) \/ IsInf(a) THEN NaN
    ELSE IF a.v >= 0 THEN Num(a.v % m)
    ELSE Num(0 - ((0 - a.v) % m))

(***************************************************************************)
(* Constants of the program.                                               *)
(***************************************************************************)
\* #define PI: the number of angle units in pi radians
PI == 360

\* x * PI / 180.
ToRadians(x) == FScale(x, PI, 180)

\* x * 180. / PI
ToDegrees(x) == FScale(x, 180, PI)

\* the default epochs of Inputs, in tenths of a day
JD0 == 24526235
JD1 == 24526236

\* struct Inputs after construction
NewInputs ==
    [ lat |-> -30, lon |-> -71, ht_in_meters |-> 2663,
      jd |-> <<JD0, JD1>>,
      search_radius |-> Num(10),
      target_ra |-> Num(90), target_dec |-> Num(30),
      rho_sin_phi |-> 0, rho_cos_phi |-> 0,
      i |-> 0, header_line_shown |-> 0 ]

\* struct Outputs after construction
NewOutputs == [ ra |-> <<Num(0), Num(0)>>, dec |-> <<Num(0), Num(0)>> ]

(***************************************************************************)
(* The element sets of the model.  norad_number names the object; xno is   *)
(* its mean motion in revolutions per day; epoch is in tenths of a day.    *)
(***************************************************************************)
Tle(n, x) == [ norad_number |-> n, epoch |-> 24526230, xno |-> x ]

Tles == { Tle(1, 15), Tle(2, 1), Tle(3, 15), Tle(4, 15) }

(***************************************************************************)
(* The collaborators (norad.h, observe.h): functions of their arguments.   *)
(***************************************************************************)
earth_lat_alt_to_parallax(lat, ht) ==
    [ rho_cos_phi |-> 1 + ht \div 2000, rho_sin_phi |-> lat \div 30 ]

\* the observer turns with the Earth: a quarter turn per tenth of a day
observer_cartesian_coords(jd, lon, rho_cos_phi, rho_sin_phi) ==
    LET phase == (jd + lon) % 4
    IN  << rho_cos_phi * (CASE phase = 0 -> 1 [] phase = 2 -> -1 [] OTHER -> 0),
           rho_cos_phi * (CASE phase = 1 -> 1 [] phase = 3 -> -1 [] OTHER -> 0),
           rho_sin_phi >>

\* 1: deep space (a period of 225 minutes or more), 0: near Earth
select_ephemeris(t) == IF 1440 >= 225 * t.xno THEN 1 ELSE 0

\* The propagated state: rc is the propagator's return value (0: no error),
\* pos the geocentric direction of the position it wrote.
Orbit(t, t_since) ==
    CASE t.norad_number = 1 /\ t_since = 720 ->
            [ rc |-> 0, pos |-> [ ra |-> Num(186), dec |-> Num(62) ] ]
      [] t.norad_number = 1 ->
            [ rc |-> 0, pos |-> [ ra |-> Num(262), dec |-> Num(60) ] ]
      [] t.norad_number = 2 /\ t_since = 720 ->
            [ rc |-> 0, pos |-> [ ra |-> Num(722), dec |-> Num(60) ] ]
      [] t.norad_number = 2 ->
            [ rc |-> 0, pos |-> [ ra |-> Num(542), dec |-> Num(60) ] ]
      [] t.norad_number = 3 /\ t_since = 720 ->
            [ rc |-> -1, pos |-> [ ra |-> NaN, dec |-> NaN ] ]
      [] t.norad_number = 3 ->
            [ rc |-> -1, pos |-> [ ra |-> Num(184), dec |-> Num(62) ] ]
      [] t.norad_number = 4 /\ t_since = 720 ->
            [ rc |-> 0, pos |-> [ ra |-> Num(-3956), dec |-> Num(60) ] ]
      [] OTHER ->
            [ rc |-> 0, pos |-> [ ra |-> Num(0), dec |-> Num(60) ] ]

SGP4(t_since, t) == Orbit(t, t_since)

SDP4(t_since, t) == Orbit(t, t_since)

\* the direction of pos as seen from observer_loc
get_satellite_ra_dec_delta(observer_loc, pos) ==
    [ ra |-> FSub(pos.ra, Num(observer_loc[2])),
      dec |-> FSub(pos.dec, Num(observer_loc[3])) ]

\* precession from the epoch of date back to J2000
epoch_of_date_to_j2000(jd, ra, dec) ==
    [ ra |-> FSub(ra, Num(2)), dec |-> FSub(dec, Num(2)) ]

(***************************************************************************)
(* State.                                                                  *)
(***************************************************************************)
VARIABLES
    py_inputs,      \* the caller's Inputs object
    py_tle,         \* the caller's element set
    py_outputs,     \* the caller's Outputs object
    py_err,         \* the exception the last binding call raised
    pc,             \* where calc_sat stands
    inputs,         \* calc_sat's copy of the Inputs argument
    tle,            \* calc_sat's copy of the element set
    outputs,        \* calc_sat's result object
    i,              \* the epoch index of calc_sat's loop
    observer_loc, pos, ra, dec, d_ra, radius,
    args,           \* history: the caller's objects when calc_sat was entered
    n_wrap,         \* history: turns of the wrap loop in this epoch (modulo)
    rc,             \* history: the return values the propagator gave, by epoch
    seen,           \* history: ra, dec and radius of each epoch at its test
    log             \* history: the calls that returned

vars == << py_inputs, py_tle, py_outputs, py_err, pc, inputs, tle, outputs, i,
           observer_loc, pos, ra, dec, d_ra, radius, args, n_wrap, rc, seen,
           log >>

frame == << pc, inputs, tle, outputs, i, observer_loc, pos, ra, dec, d_ra,
            radius, args, n_wrap, rc, seen, log >>

caller == << py_inputs, py_tle, py_outputs, py_err >>

locals == << observer_loc, pos, ra, dec, d_ra, radius >>

\* a local that holds no value yet
Unset == Num(0)

NoPos == [ ra |-> Unset, dec |-> Unset ]

NoSeen == [ ra |-> Unset, dec |-> Unset, radius |-> Unset, done |-> FALSE ]

InitFrame ==
    /\ pc = "idle"
    /\ inputs = NewInputs
    /\ tle = Tle(1, 15)
    /\ outputs = NewOutputs
    /\ i = 0
    /\ observer_loc = <<0, 0, 0>>
    /\ pos = NoPos
    /\ ra = Unset
    /\ dec = Unset
    /\ d_ra = Unset
    /\ radius = Unset
    /\ args = [ inputs |-> NewInputs, tle |-> Tle(1, 15) ]
    /\ n_wrap = 0
    /\ rc = <<0, 0>>
    /\ seen = <<NoSeen, NoSeen>>
    /\ log = <<>>

\* after construction of the caller's objects
Init ==
    /\ py_inputs = NewInputs
    /\ py_tle = Tle(1, 15)
    /\ py_outputs = NewOutputs
    /\ py_err = "none"
    /\ InitFrame

(***************************************************************************)
(* calc_sat                                                                *)
(***************************************************************************)
\* a bug: the argument is taken by reference
ArgAfterCall_ByRef(own, copy) == copy

\* line 100: Inputs and tle_t come by value; the caller keeps its own
ArgAfterCall(own, copy) == own

\* line 102: the result object is built anew in every call
LocalOutputs(prev) == NewOutputs

\* lines 100-109: the arguments are copied, the target goes to radians
Call ==
    /\ pc = "idle"
    /\ Len(log) < MaxCalls
    /\ inputs' = [ py_inputs EXCEPT !.target_ra = ToRadians(@),
                                    !.target_dec = ToRadians(@) ]
    /\ tle' = py_tle
    /\ outputs' = LocalOutputs(outputs)
    /\ i' = 0
    /\ args' = [ inputs |-> py_inputs, tle |-> py_tle ]
    /\ n_wrap' = 0
    /\ rc' = <<0, 0>>
    /\ seen' = <<NoSeen, NoSeen>>
    /\ py_err' = "none"
    /\ pc' = "observe"
    /\ UNCHANGED << py_inputs, py_tle, py_outputs, locals, log >>

\* lines 111-125: the parallax constants and the observer's position
Observe ==
    /\ pc = "observe"
    /\ LET par == earth_lat_alt_to_parallax((inputs.lat * PI) \div 180,
                                            inputs.ht_in_meters)
       IN  /\ inputs' = [ inputs EXCEPT !.rho_cos_phi = par.rho_cos_phi,
                                        !.rho_sin_phi = par.rho_sin_phi ]
           /\ observer_loc' = observer_cartesian_coords(
                                  inputs.jd[i + 1], (inputs.lon * PI) \div 180,
                                  par.rho_cos_phi, par.rho_sin_phi)
    /\ pos' = NoPos
    /\ ra' = Unset
    /\ dec' = Unset
    /\ d_ra' = Unset
    /\ radius' = Unset
    /\ n_wrap' = 0
    /\ pc' = "propagate"
    /\ UNCHANGED << caller, tle, outputs, i, args, rc, seen, log >>

\* lines 127-144: the propagator's return value is dropped
Propagate ==
    /\ pc = "propagate"
    /\ LET is_deep == select_ephemeris(tle)
           t_since == ((inputs.jd[i + 1] - tle.epoch) * 1440) \div 10
           got == IF is_deep # 0 THEN SDP4(t_since, tle) ELSE SGP4(t_since, tle)
       IN  /\ pos' = got.pos
           /\ rc' = [ rc EXCEPT ![i + 1] = got.rc ]
    /\ pc' = "reduce"
    /\ UNCHANGED << caller, inputs, tle, outputs, i, observer_loc,
                    ra, dec, d_ra, radius, args, n_wrap, seen, log >>

\* line 148
Offset(x, target_ra) == FAdd(FSub(x, target_ra), Num(PI * 4))

\* lines 145-149
Reduce ==
    /\ pc = "reduce"
    /\ LET topo == get_satellite_ra_dec_delta(observer_loc, pos)
           j2000 == epoch_of_date_to_j2000(inputs.jd[i + 1], topo.ra, topo.dec)
       IN  /\ ra' = j2000.ra
           /\ dec' = j2000.dec
           /\ d_ra' = Offset(j2000.ra, inputs.target_ra)
    /\ pc' = "wrap"
    /\ UNCHANGED << caller, inputs, tle, outputs, i, observer_loc, pos,
                    radius, args, n_wrap, rc, seen, log >>

\* a bug: the loop stops one turn early
WrapTest_TwoPi(d) == FGt(d, Num(PI + PI))

\* line 150: the test of while( d_ra > PI)
WrapTest(d) == FGt(d, Num(PI))

\* lines 150-151: one turn of while( d_ra > PI) d_ra -= PI + PI
WrapStep ==
    /\ pc = "wrap"
    /\ WrapTest(d_ra)
    /\ d_ra' = FSub(d_ra, Num(PI + PI))
    /\ n_wrap' = (n_wrap + 1) % (MaxWrap + 1)
    /\ UNCHANGED << caller, pc, inputs, tle, outputs, i, observer_loc, pos,
                    ra, dec, radius, args, rc, seen, log >>

\* line 150: the loop's test fails
WrapExit ==
    /\ pc = "wrap"
    /\ ~WrapTest(d_ra)
    /\ pc' = "decide"
    /\ UNCHANGED << caller, inputs, tle, outputs, i, locals, args, n_wrap,
                    rc, seen, log >>

\* line 153
Radius(dra, ddec) == ToDegrees(FHypot(dra, ddec))

\* a bug: <= for <
Matches_Le(r, search_radius) == FLe(r, search_radius)

\* line 161
Matches(r, search_radius) == FLt(r, search_radius)

\* line 169
Normalize(x) == Fmod(FAdd(x, Num(PI * 10)), PI + PI)

\* a bug: the result is left in radians
Store_Radians(out, k, x, y) ==
    [ out EXCEPT !.ra[k + 1] = x, !.dec[k + 1] = y ]

\* a bug: every match goes to the first slot
Store_Slot0(out, k, x, y) ==
    [ out EXCEPT !.ra[1] = ToDegrees(x), !.dec[1] = ToDegrees(y) ]

\* lines 174-175
Store(out, k, x, y) ==
    [ out EXCEPT !.ra[k + 1] = ToDegrees(x), !.dec[k + 1] = ToDegrees(y) ]

\* lines 152-178: the offset, the test against search_radius, the next epoch
Decide ==
    /\ pc = "decide"
    /\ LET d_dec == FSub(dec, inputs.target_dec)
           r == Radius(d_ra, d_dec)
           hit == Matches(r, inputs.search_radius)
           nra == IF hit THEN Normalize(ra) ELSE ra
       IN  /\ radius' = r
           /\ seen' = [ seen EXCEPT ![i + 1] =
                          [ ra |-> ra, dec |-> dec, radius |-> r, done |-> TRUE ] ]
           /\ ra' = nra
           /\ outputs' = IF hit THEN Store(outputs, i, nra, dec) ELSE outputs
    /\ inputs' = [ inputs EXCEPT !.header_line_shown = 1 ]
    /\ i' = i + 1
    /\ pc' = IF i + 1 < 2 THEN "observe" ELSE "return"
    /\ UNCHANGED << caller, tle, observer_loc, pos, dec, d_ra, args, n_wrap,
                    rc, log >>

\* line 180: the result goes to the caller by value
Return ==
    /\ pc = "return"
    /\ py_inputs' = ArgAfterCall(py_inputs, inputs)
    /\ py_tle' = ArgAfterCall(py_tle, tle)
    /\ py_outputs' = outputs
    /\ log' = Append(log, [ args |-> args,
                            after |-> [ inputs |-> py_inputs', tle |-> py_tle' ],
                            outputs |-> outputs, rc |-> rc, seen |-> seen ])
    /\ pc' = "idle"
    /\ UNCHANGED << py_err, inputs, tle, outputs, i, locals, args, n_wrap,
                    rc, seen >>

CalcSat ==
    \/ Call
    \/ Observe
    \/ Propagate
    \/ Reduce
    \/ WrapStep
    \/ WrapExit
    \/ Decide
    \/ Return

(***************************************************************************)
(* The binding layer: numpy arrays and the array setters.                  *)
(* An array is a view of a buffer: its elements lie stride places apart,   *)
(* and data() points at the first of them.                                 *)
(***************************************************************************)
View(buf, stride) == [ buf |-> buf, stride |-> stride ]

\* arr.size()
Size(arr) == (Len(arr.buf) + arr.stride - 1) \div arr.stride

\* the elements of the array, as Python sees them
Elements(arr) == [ k \in 1..Size(arr) |-> arr.buf[1 + (k - 1) * arr.stride] ]

\* memcpy(dst, arr.data(), n * sizeof(double))
Memcpy(arr, n) == SubSeq(arr.buf, 1, n)

ArraysOf(S) ==
    { View(b, s) : b \in UNION { [1..m -> S] : m \in 0..MaxArrLen },
                   s \in {1, 2} }

JdArrays == ArraysOf({JD0, JD1})

RaDecArrays == ArraysOf({Num(0), Num(45)})

\* Outputs::max_size
max_size == 2

\* lines 58-63
set_jd_array(arr) ==
    /\ pc = "idle"
    /\ IF Size(arr) # 2
       THEN /\ py_err' = "runtime_error"
            /\ UNCHANGED py_inputs
       ELSE /\ py_inputs' = [ py_inputs EXCEPT !.jd = Memcpy(arr, 2) ]
            /\ py_err' = "none"
    /\ UNCHANGED << py_tle, py_outputs, frame >>

\* lines 71-76
set_dec_array(arr) ==
    /\ pc = "idle"
    /\ IF Size(arr) # max_size
       THEN /\ py_err' = "runtime_error"
            /\ UNCHANGED py_outputs
       ELSE /\ py_outputs' = [ py_outputs EXCEPT !.dec = Memcpy(arr, Size(arr)) ]
            /\ py_err' = "none"
    /\ UNCHANGED << py_inputs, py_tle, frame >>

\* lines 89-94
set_ra_array(arr) ==
    /\ pc = "idle"
    /\ IF Size(arr) # max_size
       THEN /\ py_err' = "runtime_error"
            /\ UNCHANGED py_outputs
       ELSE /\ py_outputs' = [ py_outputs EXCEPT !.ra = Memcpy(arr, Size(arr)) ]
            /\ py_err' = "none"
    /\ UNCHANGED << py_inputs, py_tle, frame >>

SetJdArray == \E arr \in JdArrays : set_jd_array(arr)

SetDecArray == \E arr \in RaDecArrays : set_dec_array(arr)

SetRaArray == \E arr \in RaDecArrays : set_ra_array(arr)

\* the caller sets jd from a plain array of two dates
SetJdPair == \E a \in { JD0, JD1 }, b \in { JD0, JD1 } : set_jd_array(View(<< a, b >>, 1))

\* lines 204-230, 248: the caller takes another element set
SetTle ==
    /\ pc = "idle"
    /\ py_tle' \in { Tle(1, 15), Tle(2, 1), Tle(3, 15) }
    /\ py_err' = "none"
    /\ UNCHANGED << py_inputs, py_outputs, frame >>

(***************************************************************************)
(* The specifications.                                                     *)
(***************************************************************************)
\* a session: the caller sets up an Inputs object and calls calc_sat
Next ==
    \/ SetJdPair
    \/ SetTle
    \/ CalcSat

Spec == Init /\ [][Next]_vars

\* the array setters of the binding objects
NextBinding ==
    \/ SetJdArray
    \/ SetDecArray
    \/ SetRaArray

SpecBinding == Init /\ [][NextBinding]_vars

\* one evaluation: the caller's objects are drawn, then calc_sat runs
EvalTargetRa == { Num(90), Num(1), Num(359), Num(-1980), NegInf, NaN }

EvalTargetDec == { Num(30), Num(0) }

EvalSearchRadius == { Num(10), Num(0), Num(-10) }

EvalJd == { JD0, JD1 }

InitEval ==
    /\ \E tra \in EvalTargetRa, tdec \in EvalTargetDec,
          sr \in EvalSearchRadius, a \in EvalJd, b \in EvalJd :
          py_inputs = [ NewInputs EXCEPT !.target_ra = tra, !.target_dec = tdec,
                                         !.search_radius = sr, !.jd = <<a, b>> ]
    /\ py_tle \in Tles
    /\ py_outputs = NewOutputs
    /\ py_err = "none"
    /\ InitFrame

SpecEval == InitEval /\ [][CalcSat]_vars

\* calc_sat runs on: a step that can be taken is taken
SpecEvalFair == SpecEval /\ WF_vars(CalcSat)

(***************************************************************************)
(* The claims.                                                             *)
(***************************************************************************)
Zero == << Num(0), Num(0) >>

Slot(out, k) == << out.ra[k], out.dec[k] >>

Abs(n) == IF n < 0 THEN 0 - n ELSE n

Min(a, b) == IF a < b THEN a ELSE b

Returned == 1..Len(log)

\* C1: at the test of epoch i, the offset is sqrt(d_ra^2 + d_dec^2) * 180/pi;
\* when it is strictly less than search_radius, slot i becomes
\* (fmod(ra + 10 pi, 2 pi) * 180/pi, dec * 180/pi) and the other slot stays;
\* when the apparent direction is the target and search_radius > 0 this
\* happens, with offset 0.
C1_MatchStoresApparent ==
    [][ (pc = "decide" /\ pc' # "decide") =>
          LET k == i + 1
              s == ra.v + 10 * PI
              m == IF s >= 0 THEN s % (2 * PI) ELSE 0 - ((0 - s) % (2 * PI))
              stored == /\ outputs'.ra[k] = Num((m * 180) \div PI)
                        /\ outputs'.dec[k] = Num((dec.v * 180) \div PI)
                        /\ Slot(outputs', 3 - k) = Slot(outputs, 3 - k)
              dd == dec.v - inputs.target_dec.v
          IN  /\ (IsNum(d_ra) /\ IsNum(dec) /\ IsNum(inputs.target_dec)) =>
                    radius' = Num((ISqrt(d_ra.v * d_ra.v + dd * dd) * 180) \div PI)
              /\ FLt(radius', inputs.search_radius) => stored
              /\ ( /\ IsNum(ra)
                   /\ ra = inputs.target_ra
                   /\ dec = inputs.target_dec
                   /\ FGt(inputs.search_radius, Num(0)) )
                 => (radius' = Num(0) /\ stored)
      ]_vars

\* C1: an epoch whose apparent direction is the target has been stored
C1_Witness ==
    \E n \in Returned : \E k \in 1..2 :
        LET e == log[n]
        IN  /\ e.seen[k].ra = ToRadians(e.args.inputs.target_ra)
            /\ e.seen[k].dec = ToRadians(e.args.inputs.target_dec)
            /\ e.args.inputs.target_ra = Num(359)
            /\ Slot(e.outputs, k) = << Num(359), Num(30) >>

\* what C2 asks of the epochs seen so far, under search radius sr
C2_Holds(sr, sn, out) ==
    \A k \in 1..2 :
        /\ (sn[k].done /\ FGe(sn[k].radius, sr)) => Slot(out, k) = Zero
        /\ FLe(sr, Num(0)) => Slot(out, k) = Zero

\* C2: an epoch whose offset is >= search_radius leaves its slot at (0, 0);
\* with search_radius <= 0 the result is ((0, 0), (0, 0)), and calc_sat
\* raises nothing.
C2_NoMatchIsSentinel ==
    /\ pc # "idle" => C2_Holds(inputs.search_radius, seen, outputs)
    /\ \A n \in Returned :
          /\ C2_Holds(log[n].args.inputs.search_radius, log[n].seen, log[n].outputs)
          /\ py_err = "none"

\* C2: a call has returned whose offset was 0 under search radius 0
C2_Witness ==
    \E n \in Returned : \E k \in 1..2 :
        /\ log[n].args.inputs.search_radius = Num(0)
        /\ log[n].seen[k].radius = Num(0)
        /\ log[n].outputs = NewOutputs

\* C3: every slot a match wrote has right ascension in [0, 360) and
\* declination in [-90, 90]: fmod(ra + 10 pi, 2 pi) lies in [0, 2 pi) for
\* every apparent ra that is a number, a negative one too.
C3_MatchedInRange ==
    \A n \in Returned : \A k \in 1..2 :
        LET e == log[n]
        IN  FLt(e.seen[k].radius, e.args.inputs.search_radius) =>
               /\ FGe(e.outputs.ra[k], Num(0))
               /\ FLt(e.outputs.ra[k], Num(360))
               /\ FGe(e.outputs.dec[k], Num(-90))
               /\ FLe(e.outputs.dec[k], Num(90))

InTurn(x) == IsNum(x) /\ 0 <= x.v /\ x.v < PI + PI

\* C4: with apparent and target RA both in [0, 2 pi), |d_ra| after the wrap
\* loop is the distance round the circle; apparent RA 359 deg against target
\* RA 1 deg at equal declinations is an offset of 2 deg, a match under
\* search radius 10.
C4_SeamShortWay ==
    /\ (pc = "decide" /\ InTurn(ra) /\ InTurn(inputs.target_ra)) =>
          LET gap == Abs(ra.v - inputs.target_ra.v)
          IN  /\ IsNum(d_ra)
              /\ Abs(d_ra.v) = Min(gap, PI + PI - gap)
    /\ \A k \in 1..2 :
          ( /\ pc # "idle"
            /\ seen[k].done
            /\ seen[k].ra = Num((359 * PI) \div 180)
            /\ inputs.target_ra = Num(PI \div 180)
            /\ seen[k].dec = inputs.target_dec )
          => /\ seen[k].radius = Num(2)
             /\ inputs.search_radius = Num(10) =>
                   Slot(outputs, k) = << Num(359), ToDegrees(seen[k].dec) >>

\* C4: apparent RA 359 deg has matched target RA 1 deg
C4_Witness ==
    \E k \in 1..2 :
        /\ pc = "return"
        /\ seen[k].ra = Num((359 * PI) \div 180)
        /\ args.inputs.target_ra = Num(1)
        /\ seen[k].radius = Num(2)
        /\ outputs.ra[k] = Num(359)

\* C5: a call in which the propagator signalled a failure does not return
\* a result.
C5_FailureSurfaced ==
    \A n \in Returned : \A k \in 1..2 : log[n].rc[k] = 0

SwapJd(inp) == [ inp EXCEPT !.jd = << @[2], @[1] >> ]

SwapSlots(out) == [ ra |-> << out.ra[2], out.ra[1] >>,
                    dec |-> << out.dec[2], out.dec[1] >> ]

\* C6: a call with the epochs (b, a) returns the result of the call with
\* (a, b) with its slots swapped; an epoch not yet tested has not been
\* written.
C6_EpochsIndependent ==
    /\ \A m \in Returned : \A n \in Returned :
          ( /\ log[m].args.tle = log[n].args.tle
            /\ log[m].args.inputs = SwapJd(log[n].args.inputs) )
          => log[m].outputs = SwapSlots(log[n].outputs)
    /\ pc # "idle" => \A k \in 1..2 : ~seen[k].done => Slot(outputs, k) = Zero

\* C6: two calls with swapped, different epochs, one epoch of which matched
C6_Witness ==
    /\ Len(log) = 2
    /\ log[1].args.tle = log[2].args.tle
    /\ log[1].args.inputs = SwapJd(log[2].args.inputs)
    /\ log[1].args.inputs.jd[1] # log[1].args.inputs.jd[2]
    /\ Slot(log[1].outputs, 1) # Zero
    /\ Slot(log[1].outputs, 2) = Zero

RECURSIVE Wrapped(_)
\* d_ra after the wrap loop
Wrapped(d) ==
    IF FGt(d, Num(PI)) /\ FSub(d, Num(PI + PI)) # d
    THEN Wrapped(FSub(d, Num(PI + PI)))
    ELSE d

\* slot k of a call that nothing came before
IsolatedSlot(inp, t, k) ==
    LET par == earth_lat_alt_to_parallax((inp.lat * PI) \div 180, inp.ht_in_meters)
        obs == observer_cartesian_coords(inp.jd[k], (inp.lon * PI) \div 180,
                                         par.rho_cos_phi, par.rho_sin_phi)
        t_since == ((inp.jd[k] - t.epoch) * 1440) \div 10
        got == IF select_ephemeris(t) # 0 THEN SDP4(t_since, t) ELSE SGP4(t_since, t)
        topo == get_satellite_ra_dec_delta(obs, got.pos)
        dir == epoch_of_date_to_j2000(inp.jd[k], topo.ra, topo.dec)
        d == Wrapped(FAdd(FSub(dir.ra, ToRadians(inp.target_ra)), Num(4 * PI)))
        dd == FSub(dir.dec, ToRadians(inp.target_dec))
        r == ToDegrees(FHypot(d, dd))
    IN  IF FLt(r, inp.search_radius)
        THEN << ToDegrees(Fmod(FAdd(dir.ra, Num(10 * PI)), 2 * PI)),
                ToDegrees(dir.dec) >>
        ELSE Zero

IsolatedCall(inp, t) ==
    [ ra |-> << IsolatedSlot(inp, t, 1)[1], IsolatedSlot(inp, t, 2)[1] >>,
      dec |-> << IsolatedSlot(inp, t, 1)[2], IsolatedSlot(inp, t, 2)[2] >> ]

C9_Terminates == (pc # "idle") ~> (pc = "idle")

\* C9, the part that holds: with the apparent and the target RA in
\* [0, 2 pi) the wrap loop takes at most 3 turns.
C9_AtMostThreeTurns ==
    (pc \in {"wrap", "decide"} /\ InTurn(ra) /\ InTurn(inputs.target_ra)) =>
        n_wrap <= 3

\* what C10 says of one setter step, for the arrays of JA and RA
SetterStep(JA, RA) ==
    /\ \A arr \in JA : set_jd_array(arr) =>
          IF Size(arr) = 2
          THEN py_inputs'.jd = Elements(arr) /\ py_outputs' = py_outputs
          ELSE py_err' = "runtime_error" /\ UNCHANGED << py_inputs, py_outputs >>
    /\ \A arr \in RA : set_ra_array(arr) =>
          IF Size(arr) = 2
          THEN /\ py_outputs'.ra = Elements(arr)
               /\ py_outputs'.dec = py_outputs.dec
               /\ py_inputs' = py_inputs
          ELSE py_err' = "runtime_error" /\ UNCHANGED << py_inputs, py_outputs >>
    /\ \A arr \in RA : set_dec_array(arr) =>
          IF Size(arr) = 2
          THEN /\ py_outputs'.dec = Elements(arr)
               /\ py_outputs'.ra = py_outputs.ra
               /\ py_inputs' = py_inputs
          ELSE py_err' = "runtime_error" /\ UNCHANGED << py_inputs, py_outputs >>

Contiguous(A) == { arr \in A : arr.stride = 1 }

\* C10: an array setter given an array of 2 elements stores those two
\* elements in order and leaves the other arrays alone; given any other
\* array it raises runtime_error and changes nothing.
C10_SettersStoreTheArray == [][ SetterStep(JdArrays, RaDecArrays) ]_vars

\* C10, the part that holds: a setter given an array whose elements lie
\* side by side does as C10 says, and each stored array keeps 2 elements.
C10_ContiguousStored ==
    [][ /\ SetterStep(Contiguous(JdArrays), Contiguous(RaDecArrays))
        /\ Len(py_inputs'.jd) = 2
        /\ Len(py_outputs'.ra) = 2
        /\ Len(py_outputs'.dec) = 2 ]_vars

=============================================================================
